---- MODULE Spec2Model ----
(***************************************************************************)
(* The inventory service of inventory-service/app.py: the module-level     *)
(* list `inventory`, the validator validate_item_data and the five request *)
(* handlers get_items, get_item, add_item, update_item and delete_item.    *)
(*                                                                         *)
(* Every request is served by one handler thread.  A handler is a sequence *)
(* of steps; each step holds at most one access to the shared state (the   *)
(* list, a record of the list, the gauge, the clock).  Spec lets the       *)
(* handlers of several requests interleave step by step; SeqSpec starts a  *)
(* request only when no other request is being served.                     *)
(***************************************************************************)
EXTENDS Integers, Sequences, FiniteSets, TLC

\* ------------------------------------------------------------------ bounds

\* Requests started in one behaviour when they are served one at a time,
\* and when they are served at the same time.
MaxReqs == 3
MaxOverlapReqs == 2

\* The latest value the clock (datetime.utcnow) reaches.
MaxTime == 1

\* The handler threads that may serve requests at the same time.
MaxFairReqs == 2
Threads == {1, 2}

\* The ids the requests name in their path (/items/<int:item_id>).
ReqIds == {1, 2, 3}

\* ------------------------------------------------------- values and strings

\* Python's None: the request body `null`.
None == [t |-> "none"]

\* JSON values of a request body's fields.
JInt(n) == [t |-> "int", v |-> n]
JBool(b) == [t |-> "bool", v |-> b]
JStr(s) == [t |-> "str", v |-> s]
JFloat(n) == [t |-> "float", v |-> n]

\* A string is a sequence of characters; these are the whitespace ones.
IsSpace(c) == c \in {" ", "\t"}

RECURSIVE LStrip(_)
LStrip(s) == IF s # <<>> /\ IsSpace(Head(s)) THEN LStrip(Tail(s)) ELSE s

RECURSIVE RStrip(_)
RStrip(s) ==
    IF s # <<>> /\ IsSpace(s[Len(s)]) THEN RStrip(SubSeq(s, 1, Len(s) - 1)) ELSE s

\* str.strip()
Strip(s) == RStrip(LStrip(s))

\* isinstance(x, int): bool is a subclass of int.
IsInstanceInt(x) == x.t \in {"int", "bool"}

\* isinstance(x, str)
IsInstanceStr(x) == x.t = "str"

\* The number an int (or a bool, as an int) stands for in a comparison.
NumOf(x) == IF x.t = "bool" THEN (IF x.v THEN 1 ELSE 0) ELSE x.v

\* A request body: None, or a JSON object as a function from its field
\* names to their values.
Body(name, stock) == [t |-> "dict", f |-> [name |-> name, stock |-> stock]]
BodyNameOnly(name) == [t |-> "dict", f |-> [name |-> name]]
BodyStockOnly(stock) == [t |-> "dict", f |-> [stock |-> stock]]
EmptyBody == [t |-> "dict", f |-> <<>>]

\* not data: None and the empty object are falsy.
Falsy(data) == data.t = "none" \/ (data.t = "dict" /\ DOMAIN data.f = {})

\* field in data
HasField(data, field) == field \in DOMAIN data.f

\* validate_item_data: <<is_valid, message>>
validate_item_data(data) ==
    IF Falsy(data) THEN <<FALSE, "No data provided">>
    ELSE IF ~HasField(data, "name") THEN <<FALSE, "Missing required field: name">>
    ELSE IF ~HasField(data, "stock") THEN <<FALSE, "Missing required field: stock">>
    ELSE IF ~IsInstanceInt(data.f.stock) \/ NumOf(data.f.stock) < 0
         THEN <<FALSE, "Stock must be a non-negative integer">>
    ELSE IF ~IsInstanceStr(data.f.name) \/ Len(Strip(data.f.name.v)) = 0
         THEN <<FALSE, "Name must be a non-empty string">>
    ELSE <<TRUE, "Valid">>

\* The bodies the requests carry.
Candidates ==
    { None,
      EmptyBody,
      BodyStockOnly(JInt(5)),
      BodyNameOnly(JStr(<<"A">>)),
      Body(JStr(<<"A">>), JInt(-1)),
      Body(JStr(<<"A">>), JStr(<<"5">>)),
      Body(JStr(<<"A">>), JFloat(1)),
      Body(JStr(<<" ", "\t">>), JInt(-1)),
      Body(JStr(<<" ", "\t">>), JInt(5)),
      Body(JStr(<<>>), JInt(5)),
      Body(JInt(7), JInt(5)),
      Body(JStr(<<" ", "A", "\t">>), JInt(0)),
      Body(JStr(<<"B">>), JBool(TRUE)) }

\* The bodies of the requests that are served at the same time: one that
\* fails validation and two that pass it.
OverlapCandidates ==
    { None,
      Body(JStr(<<" ", "A", "\t">>), JInt(0)),
      Body(JStr(<<"B">>), JBool(TRUE)) }

\* ------------------------------------------------------------------- state

VARIABLES
    heap,       \* the record objects ever created, by address (a dict each)
    inventory,  \* the list `inventory`: the addresses of its records, in order
    gauge,      \* INVENTORY_SIZE
    now,        \* the clock datetime.utcnow reads
    th,         \* per handler thread: its position and its local variables
    nreq,       \* requests started
    resp,       \* the request that completed last, with its response
    addIds,     \* the ids the successful adds returned, in order of return
    delIds,     \* the ids of the successful deletes, in order of return
    committed,  \* the record values a completed add or update has produced
    updated     \* the addresses of the records a successful update has returned

vars ==
    <<heap, inventory, gauge, now, th, nreq, resp, addIds, delIds, committed, updated>>

\* An absent updated_at key is the empty sequence, a present one <<time>>.
Record(id, name, stock, created_at, updated_at) ==
    [id |-> id, name |-> name, stock |-> stock,
     created_at |-> created_at, updated_at |-> updated_at]

\* The two records the module starts with.
Seed ==
    << Record(1, <<"L">>, JInt(10), 0, <<>>),
       Record(2, <<"M">>, JInt(50), 0, <<>>) >>

\* dict == dict: equal keys and equal values (True == 1).
PyEq(a, b) ==
    /\ a.id = b.id
    /\ a.name = b.name
    /\ NumOf(a.stock) = NumOf(b.stock)
    /\ a.created_at = b.created_at
    /\ a.updated_at = b.updated_at

\* What a reader of the whole list sees: the records, in list order.
StoreView == [i \in 1..Len(inventory) |-> heap[inventory[i]]]

\* A thread that serves no request.
Idle ==
    [pc |-> "idle", op |-> "none", id |-> 0, data |-> None, idx |-> 0, acc |-> 0,
     item |-> 0, n |-> 0, new |-> None, pre |-> <<>>]

\* No request has completed yet.
NoRequest ==
    [op |-> "none", id |-> 0, valid |-> FALSE, status |-> 0, body |-> None, pre |-> <<>>,
     item |-> 0]

Init ==
    /\ heap = Seed
    /\ inventory = <<1, 2>>
    /\ gauge = Len(Seed)
    /\ now = 1
    /\ th = [t \in Threads |-> Idle]
    /\ nreq = 0
    /\ resp = NoRequest
    /\ addIds = <<>>
    /\ delIds = <<>>
    /\ committed = {Seed[i] : i \in 1..Len(Seed)}
    /\ updated = {}

\* The first position of each handler.
Entry(op) ==
    CASE op = "list" -> "list_len"
      [] op = "get" -> "get_scan"
      [] op = "add" -> "add_validate"
      [] op = "update" -> "upd_scan"
      [] op = "delete" -> "del_scan"

\* A request arrives and thread t starts its handler: the free thread of
\* the lowest number takes it.
Request(t, op, id, data) ==
    /\ th[t].pc = "idle"
    /\ \A u \in Threads : u < t => th[u].pc # "idle"
    /\ nreq' = nreq + 1
    /\ th' = [th EXCEPT ![t] =
                [Idle EXCEPT !.pc = Entry(op), !.op = op, !.id = id, !.data = data,
                             !.pre = StoreView]]
    /\ UNCHANGED <<heap, inventory, gauge, now, resp, addIds, delIds, committed, updated>>

\* The handler of thread t returns: the response is sent and the thread is free.
Return(t, status, body) ==
    /\ resp' = [op |-> th[t].op, id |-> th[t].id,
                valid |-> validate_item_data(th[t].data)[1],
                status |-> status, body |-> body, pre |-> th[t].pre,
                item |-> th[t].item]
    /\ th' = [th EXCEPT ![t] = Idle]

\* Thread t moves to position pc with its local variables changed as in `loc`.
Goto(t, loc) == th' = [th EXCEPT ![t] = loc]

\* datetime.utcnow(): the clock never runs backwards between two reads.
Clock(ts) == ts \in {now, now + 1} /\ ts <= MaxTime /\ now' = ts

FairIds == {2, 3}
FairCandidates == {Body(JStr(<<" ", "A", "\t">>), JInt(0))}

\* ---------------------------------------------------------- GET /items

\* get_items: the dict display evaluates len(inventory) ...
ListLen(t) ==
    /\ th[t].pc = "list_len"
    /\ Goto(t, [th[t] EXCEPT !.pc = "list_dump", !.n = Len(inventory)])
    /\ UNCHANGED <<heap, inventory, gauge, now, nreq, resp, addIds, delIds, committed, updated>>

\* A get_items that puts the newest record first with inventory.reverse(),
\* which reverses the list in place.
ListDumpReversesInPlace(t) ==
    /\ th[t].pc = "list_dump"
    /\ inventory' = [i \in 1..Len(inventory) |-> inventory[Len(inventory) + 1 - i]]
    /\ UNCHANGED <<heap, gauge, now, nreq, addIds, delIds, committed, updated>>
    /\ Return(t, 200, [items |-> StoreView', count |-> th[t].n])

\* ... and jsonify then serialises the list as it is by then.
ListDump(t) ==
    /\ th[t].pc = "list_dump"
    /\ UNCHANGED <<heap, inventory, gauge, now, nreq, addIds, delIds, committed, updated>>
    /\ Return(t, 200, [items |-> StoreView, count |-> th[t].n])

\* ------------------------------------------------ the lookup by id

\* next((item for item in inventory if item["id"] == item_id), None): one
\* step of the generator.  It reads the element at its index, and ends the
\* search with that element when the id matches, or with None past the end.
\* `found` and `missing` are the positions the handler goes on to.
\* A lookup that stays on an element whose id is not the requested one.
ScanNeverAdvances(t, here, found, missing) ==
    /\ th[t].pc = here
    /\ IF th[t].idx >= Len(inventory)
       THEN Goto(t, [th[t] EXCEPT !.pc = missing, !.item = 0])
       ELSE LET a == inventory[th[t].idx + 1] IN
            IF heap[a].id = th[t].id
            THEN Goto(t, [th[t] EXCEPT !.pc = found, !.item = a])
            ELSE Goto(t, th[t])
    /\ UNCHANGED <<heap, inventory, gauge, now, nreq, resp, addIds, delIds, committed, updated>>

Scan(t, here, found, missing) ==
    /\ th[t].pc = here
    /\ IF th[t].idx >= Len(inventory)
       THEN Goto(t, [th[t] EXCEPT !.pc = missing, !.item = 0])
       ELSE LET a == inventory[th[t].idx + 1] IN
            IF heap[a].id = th[t].id
            THEN Goto(t, [th[t] EXCEPT !.pc = found, !.item = a])
            ELSE Goto(t, [th[t] EXCEPT !.idx = @ + 1])
    /\ UNCHANGED <<heap, inventory, gauge, now, nreq, resp, addIds, delIds, committed, updated>>

\* The 404 of get_item, update_item and delete_item.
NotFound(t, here) ==
    /\ th[t].pc = here
    /\ UNCHANGED <<heap, inventory, gauge, now, nreq, addIds, delIds, committed, updated>>
    /\ Return(t, 404, "Item not found")

\* ------------------------------------------------------ GET /items/<id>

GetScan(t) == Scan(t, "get_scan", "get_dump", "get_404")

GetNotFound(t) == NotFound(t, "get_404")

\* jsonify(item): the record as it is when it is serialised.
GetDump(t) ==
    /\ th[t].pc = "get_dump"
    /\ UNCHANGED <<heap, inventory, gauge, now, nreq, addIds, delIds, committed, updated>>
    /\ Return(t, 200, heap[th[t].item])

\* ---------------------------------------------------------- POST /items

\* add_item, lines 119-126: the body is validated.
AddValidate(t) ==
    /\ th[t].pc = "add_validate"
    /\ LET v == validate_item_data(th[t].data) IN
       IF ~v[1]
       THEN /\ UNCHANGED <<heap, inventory, gauge, now, nreq, addIds, delIds, committed, updated>>
            /\ Return(t, 400, v[2])
       ELSE /\ Goto(t, [th[t] EXCEPT !.pc = "add_max"])
            /\ UNCHANGED <<heap, inventory, gauge, now, nreq, resp, addIds,
                           delIds, committed, updated>>

\* The new id from the largest id the comprehension has seen.
\* The largest id itself, not its successor.
NewIdNoIncrement(acc) == acc

NewId(acc) == acc + 1

\* A new_item that is given an updated_at key at creation.
NewItemWithUpdatedAt(new_id, data, ts) ==
    Record(new_id, Strip(data.f.name.v), data.f.stock, ts, <<ts>>)

\* The dict add_item builds (lines 131-136).
NewItem(new_id, data, ts) ==
    Record(new_id, Strip(data.f.name.v), data.f.stock, ts, <<>>)

\* max([item["id"] for item in inventory], default=0) + 1: one step of the
\* comprehension reads one element's id; past the end new_item is built.
AddMax(t) ==
    /\ th[t].pc = "add_max"
    /\ IF th[t].idx < Len(inventory)
       THEN LET i == heap[inventory[th[t].idx + 1]].id IN
            /\ Goto(t, [th[t] EXCEPT !.idx = @ + 1,
                                     !.acc = IF i > @ THEN i ELSE @])
            /\ UNCHANGED now
       ELSE \E ts \in {now, now + 1} :
            /\ Clock(ts)
            /\ Goto(t, [th[t] EXCEPT !.pc = "add_append",
                                     !.new = NewItem(NewId(th[t].acc), th[t].data, ts)])
    /\ UNCHANGED <<heap, inventory, gauge, nreq, resp, addIds, delIds, committed, updated>>

\* An add that puts the new record first, as inventory.insert(0, new_item) would.
AddAppendInsertsFirst(t) ==
    /\ th[t].pc = "add_append"
    /\ heap' = Append(heap, th[t].new)
    /\ inventory' = <<Len(heap) + 1>> \o inventory
    /\ committed' = committed \cup {th[t].new}
    /\ Goto(t, [th[t] EXCEPT !.pc = "add_len", !.item = Len(heap) + 1, !.new = None])
    /\ UNCHANGED <<gauge, now, nreq, resp, addIds, delIds, updated>>

\* inventory.append(new_item)
AddAppend(t) ==
    /\ th[t].pc = "add_append"
    /\ heap' = Append(heap, th[t].new)
    /\ inventory' = Append(inventory, Len(heap) + 1)
    /\ committed' = committed \cup {th[t].new}
    /\ Goto(t, [th[t] EXCEPT !.pc = "add_len", !.item = Len(heap) + 1, !.new = None])
    /\ UNCHANGED <<gauge, now, nreq, resp, addIds, delIds, updated>>

\* INVENTORY_SIZE.set(len(inventory)): the argument is evaluated ...
GaugeLen(t, here, next) ==
    /\ th[t].pc = here
    /\ Goto(t, [th[t] EXCEPT !.pc = next, !.n = Len(inventory)])
    /\ UNCHANGED <<heap, inventory, gauge, now, nreq, resp, addIds, delIds, committed, updated>>

\* ... and the gauge is set to it.
GaugeSet(t, here, next) ==
    /\ th[t].pc = here
    /\ gauge' = th[t].n
    /\ Goto(t, [th[t] EXCEPT !.pc = next])
    /\ UNCHANGED <<heap, inventory, now, nreq, resp, addIds, delIds, committed, updated>>

AddLen(t) == GaugeLen(t, "add_len", "add_set")

AddSet(t) == GaugeSet(t, "add_set", "add_ret")

\* return jsonify({"message": "Item added!", "item": new_item}), 201
AddReturn(t) ==
    /\ th[t].pc = "add_ret"
    /\ addIds' = Append(addIds, heap[th[t].item].id)
    /\ UNCHANGED <<heap, inventory, gauge, now, nreq, delIds, committed, updated>>
    /\ Return(t, 201, heap[th[t].item])

\* ------------------------------------------------------ PUT /items/<id>

UpdScan(t) == Scan(t, "upd_scan", "upd_validate", "upd_404")

UpdNotFound(t) == NotFound(t, "upd_404")

\* A validation that stamps updated_at on the record before it rejects the body.
UpdValidateStamps(t) ==
    /\ th[t].pc = "upd_validate"
    /\ LET v == validate_item_data(th[t].data) IN
       IF ~v[1]
       THEN /\ heap' = [heap EXCEPT ![th[t].item].updated_at = <<now>>]
            /\ UNCHANGED <<inventory, gauge, now, nreq, addIds, delIds, committed, updated>>
            /\ Return(t, 400, v[2])
       ELSE /\ Goto(t, [th[t] EXCEPT !.pc = "upd_name"])
            /\ UNCHANGED <<heap, inventory, gauge, now, nreq, resp, addIds,
                           delIds, committed, updated>>

\* update_item, lines 160-164: the body is validated once the record is found.
UpdValidate(t) ==
    /\ th[t].pc = "upd_validate"
    /\ LET v == validate_item_data(th[t].data) IN
       IF ~v[1]
       THEN /\ UNCHANGED <<heap, inventory, gauge, now, nreq, addIds, delIds, committed, updated>>
            /\ Return(t, 400, v[2])
       ELSE /\ Goto(t, [th[t] EXCEPT !.pc = "upd_name"])
            /\ UNCHANGED <<heap, inventory, gauge, now, nreq, resp, addIds,
                           delIds, committed, updated>>

\* The name written as the request gave it.
WriteNameUnstripped(r, data) == [r EXCEPT !.name = data.f.name.v]

\* item["name"] = data["name"].strip()
WriteName(r, data) == [r EXCEPT !.name = Strip(data.f.name.v)]

\* item["stock"] = data["stock"]
WriteStock(r, data) == [r EXCEPT !.stock = data.f.stock]

\* The time of the update written under the key "created_at".
WriteCreatedAt(r, ts) == [r EXCEPT !.created_at = ts]

\* item["updated_at"] = datetime.utcnow().isoformat() + "Z"
WriteUpdatedAt(r, ts) == [r EXCEPT !.updated_at = <<ts>>]

UpdName(t) ==
    /\ th[t].pc = "upd_name"
    /\ heap' = [heap EXCEPT ![th[t].item] = WriteName(@, th[t].data)]
    /\ Goto(t, [th[t] EXCEPT !.pc = "upd_stock"])
    /\ UNCHANGED <<inventory, gauge, now, nreq, resp, addIds, delIds, committed, updated>>

UpdStock(t) ==
    /\ th[t].pc = "upd_stock"
    /\ heap' = [heap EXCEPT ![th[t].item] = WriteStock(@, th[t].data)]
    /\ Goto(t, [th[t] EXCEPT !.pc = "upd_time"])
    /\ UNCHANGED <<inventory, gauge, now, nreq, resp, addIds, delIds, committed, updated>>

UpdTime(t) ==
    /\ th[t].pc = "upd_time"
    /\ \E ts \in {now, now + 1} :
          /\ Clock(ts)
          /\ heap' = [heap EXCEPT ![th[t].item] = WriteUpdatedAt(@, ts)]
    /\ committed' = committed \cup {heap'[th[t].item]}
    /\ Goto(t, [th[t] EXCEPT !.pc = "upd_ret"])
    /\ UNCHANGED <<inventory, gauge, nreq, resp, addIds, delIds, updated>>

\* return jsonify({"message": "Item updated!", "item": item})
UpdReturn(t) ==
    /\ th[t].pc = "upd_ret"
    /\ updated' = updated \cup {th[t].item}
    /\ UNCHANGED <<heap, inventory, gauge, now, nreq, addIds, delIds, committed>>
    /\ Return(t, 200, heap[th[t].item])

\* --------------------------------------------------- DELETE /items/<id>

DelScan(t) == Scan(t, "del_scan", "del_remove", "del_404")

DelNotFound(t) == NotFound(t, "del_404")

\* list.remove(x) looks for the first element that is x or equals x.
Matches(lst, a) == {i \in 1..Len(lst) : lst[i] = a \/ PyEq(heap[lst[i]], heap[a])}

\* A removal that takes the head of the list whatever it was asked to remove.
FirstMatchIsHead(lst, a) == 1

FirstMatch(lst, a) == CHOOSE i \in Matches(lst, a) : \A j \in Matches(lst, a) : i <= j

\* A removal that drops the element after the match as well.
ListRemoveTwo(lst, a) ==
    LET i == FirstMatch(lst, a) IN SubSeq(lst, 1, i - 1) \o SubSeq(lst, i + 2, Len(lst))

\* A removal made on a copy of the list: the list itself keeps the element.
ListRemoveFromCopy(lst, a) == lst

ListRemove(lst, a) ==
    LET i == FirstMatch(lst, a) IN SubSeq(lst, 1, i - 1) \o SubSeq(lst, i + 1, Len(lst))

\* inventory.remove(item); ValueError when the list holds no such element,
\* which the handler's except clause turns into the 500 response.
DelRemove(t) ==
    /\ th[t].pc = "del_remove"
    /\ IF Matches(inventory, th[t].item) # {}
       THEN /\ inventory' = ListRemove(inventory, th[t].item)
            /\ Goto(t, [th[t] EXCEPT !.pc = "del_len"])
            /\ UNCHANGED <<heap, gauge, now, nreq, resp, addIds, delIds, committed, updated>>
       ELSE /\ UNCHANGED <<heap, inventory, gauge, now, nreq, addIds, delIds, committed, updated>>
            /\ Return(t, 500, "Internal server error")

DelLen(t) == GaugeLen(t, "del_len", "del_set")

DelSet(t) == GaugeSet(t, "del_set", "del_ret")

\* return jsonify({"message": "Item deleted!", "deleted_item": item})
DelReturn(t) ==
    /\ th[t].pc = "del_ret"
    /\ delIds' = Append(delIds, heap[th[t].item].id)
    /\ UNCHANGED <<heap, inventory, gauge, now, nreq, addIds, committed, updated>>
    /\ Return(t, 200, heap[th[t].item])

\* ------------------------------------------------------- specifications

Ops == {"list", "get", "add", "update", "delete"}

\* A request of any kind, with a body among `bodies`, arrives for thread t.
Arrive(t, bodies) ==
    \E op \in Ops :
        \/ op \in {"list"} /\ Request(t, op, 0, None)
        \/ op \in {"get", "delete"} /\ \E id \in ReqIds : Request(t, op, id, None)
        \/ op \in {"add"} /\ \E data \in bodies : Request(t, op, 0, data)
        \/ op \in {"update"} /\ \E id \in ReqIds, data \in bodies : Request(t, op, id, data)

\* One step of the handler thread t is in.
Handle(t) ==
    \/ ListLen(t) \/ ListDump(t)
    \/ GetScan(t) \/ GetNotFound(t) \/ GetDump(t)
    \/ AddValidate(t) \/ AddMax(t) \/ AddAppend(t) \/ AddLen(t) \/ AddSet(t) \/ AddReturn(t)
    \/ UpdScan(t) \/ UpdNotFound(t) \/ UpdValidate(t) \/ UpdName(t) \/ UpdStock(t)
    \/ UpdTime(t) \/ UpdReturn(t)
    \/ DelScan(t) \/ DelNotFound(t) \/ DelRemove(t) \/ DelLen(t) \/ DelSet(t) \/ DelReturn(t)

AllIdle == \A t \in Threads : th[t].pc = "idle"

\* The threaded server: requests are served at the same time.
OverlapArrive(t) == nreq < MaxOverlapReqs /\ Arrive(t, OverlapCandidates)

Next == \E t \in Threads : OverlapArrive(t) \/ Handle(t)

Spec == Init /\ [][Next]_vars

\* The threaded server under a fair scheduler: a handler that can take a step
\* is not passed over forever.
FairArrive(t) ==
    /\ nreq < MaxFairReqs
    /\ \/ Request(t, "list", 0, None)
       \/ \E id \in FairIds : Request(t, "get", id, None) \/ Request(t, "delete", id, None)
       \/ \E data \in FairCandidates : Request(t, "add", 0, data)
       \/ \E id \in FairIds, data \in FairCandidates : Request(t, "update", id, data)

FairNext == \E t \in Threads : FairArrive(t) \/ Handle(t)

FairSpec == Init /\ [][FairNext]_vars /\ \A t \in Threads : WF_vars(Handle(t))

\* One request at a time: a request arrives only when none is being served.
SeqArrive(t) == nreq < MaxReqs /\ AllIdle /\ Arrive(t, Candidates)

SeqNext == \E t \in Threads : SeqArrive(t) \/ Handle(t)

SeqSpec == Init /\ [][SeqNext]_vars

\* ------------------------------------------- the validator on its own

\* A field the body does not have.
Absent == [t |-> "absent"]

\* The values of the field name and of the field stock.
ValNames ==
    { Absent, JStr(<<>>), JStr(<<" ">>), JStr(<<" ", "\t">>), JStr(<<"A">>),
      JStr(<<" ", "A", "\t">>), JInt(7) }

ValStocks ==
    { Absent, JInt(-1), JInt(0), JInt(5), JBool(TRUE), JBool(FALSE), JStr(<<"5">>),
      JFloat(1) }

\* The JSON object with the given fields, less the absent ones.
ValBody(name, stock) ==
    LET dom == (IF name = Absent THEN {} ELSE {"name"})
               \cup (IF stock = Absent THEN {} ELSE {"stock"})
    IN  [t |-> "dict", f |-> [k \in dom |-> IF k = "name" THEN name ELSE stock]]

ValInputs == {None} \cup {ValBody(name, stock) : name \in ValNames, stock \in ValStocks}

\* validate_item_data is called on a body, as TestDataValidation calls it.
ValInit ==
    /\ \E data \in ValInputs :
          th = [t \in Threads |->
                  IF t = 1 THEN [Idle EXCEPT !.pc = "validate", !.op = "validate",
                                             !.data = data]
                  ELSE Idle]
    /\ heap = Seed
    /\ inventory = <<1, 2>>
    /\ gauge = Len(Seed)
    /\ now = 1
    /\ nreq = 0
    /\ resp = NoRequest
    /\ addIds = <<>>
    /\ delIds = <<>>
    /\ committed = {Seed[i] : i \in 1..Len(Seed)}
    /\ updated = {}

\* The call returns <<is_valid, message>>.
ValApply(t) ==
    /\ th[t].pc = "validate"
    /\ LET v == validate_item_data(th[t].data) IN
       resp' = [NoRequest EXCEPT !.op = "validate", !.valid = v[1], !.body = v[2]]
    /\ Goto(t, [th[t] EXCEPT !.pc = "validated"])
    /\ UNCHANGED <<heap, inventory, gauge, now, nreq, addIds, delIds, committed, updated>>

ValNext == \E t \in Threads : ValApply(t)

ValSpec == ValInit /\ [][ValNext]_vars

\* ---------------------------------------------------------------- claims

\* A handler of add, update or delete is between its arrival and its return.
MutatorInProgress == \E t \in Threads : th[t].op \in {"add", "update", "delete"}

\* The ids of the records in the list, in list order.
StoredIds == [i \in 1..Len(inventory) |-> heap[inventory[i]].id]

\* C1: each successful add returns an id strictly greater than every id an
\* earlier successful add returned, also when records were deleted in between.
C1_AddIdsStrictlyIncrease ==
    \A i, j \in 1..Len(addIds) : i < j => addIds[i] < addIds[j]

\* C2: an id that a successful delete removed is never again the id of a
\* record in the store.
C2_DeletedIdNeverPresent ==
    \A i \in 1..Len(inventory), j \in 1..Len(delIds) : StoredIds[i] # delIds[j]

\* C3: no two records in the store have the same id, under any interleaving
\* of the requests.
C3_IdsUnique ==
    \A i, j \in 1..Len(inventory) : i # j => StoredIds[i] # StoredIds[j]

\* The records a reader's response shows.
RecordsRead ==
    IF resp.op = "get" /\ resp.status = 200 THEN {resp.body}
    ELSE IF resp.op = "list" THEN {resp.body.items[i] : i \in 1..Len(resp.body.items)}
    ELSE {}

\* C4: a get or list never shows a record with only part of an update applied:
\* every record it shows is a seeded record or the result of a completed add
\* or of a completed update (name, stock and updated_at written).
C4_ReadersSeeWholeUpdates == RecordsRead \subseteq committed

\* C5: whenever no mutating call is in progress, the store holds the two
\* seeded records plus one per successful add minus one per successful delete.
C5_SizeIsAddsMinusDeletes ==
    ~MutatorInProgress => Len(inventory) = Len(Seed) + Len(addIds) - Len(delIds)

\* C5's case: an add and a delete have both succeeded and nothing is in progress.
C5_Witness == ~MutatorInProgress /\ Len(addIds) >= 1 /\ Len(delIds) >= 1

\* C6: an add or update whose candidate fails validation is answered with the
\* validation error and leaves the store as it was when the request arrived.
C6_InvalidCandidateRejectedStoreUntouched ==
    (AllIdle /\ resp.op \in {"add", "update"} /\ ~resp.valid)
        => (resp.status = 400 /\ StoreView = resp.pre)

\* C7: an update whose candidate fails validation ends in the validation
\* error whether or not a record with the requested id exists.
C7_UpdateValidatesBeforeLookup ==
    (resp.op = "update" /\ ~resp.valid) => resp.status = 400

\* C8: list, get, and an update or delete that returns NotFound leave the
\* store unchanged: the same records, in the same order, with the same fields.
C8_ReadsAndNotFoundLeaveStore ==
    (AllIdle /\ (resp.op \in {"list", "get"}
                 \/ (resp.op \in {"update", "delete"} /\ resp.status = 404)))
        => StoreView = resp.pre

\* C8's case: an update or delete was answered NotFound after an add had
\* changed the store.
C8_Witness ==
    AllIdle /\ resp.op \in {"update", "delete"} /\ resp.status = 404 /\ Len(addIds) > 0

\* The handler of thread t returns from a successful update.
UpdateReturns(t) == th[t].pc = "upd_ret" /\ th'[t].pc = "idle"

\* C9: a successful update leaves the record's id and created_at as they
\* were, sets its name to the trimmed candidate name and its stock to the
\* candidate stock, makes updated_at present, and leaves every other record
\* of the store unchanged.
C9_UpdateFrame ==
    [][\A t \in Threads :
          UpdateReturns(t) =>
              LET pre == th[t].pre
                  post == StoreView'
                  data == th[t].data
              IN  /\ Len(post) = Len(pre)
                  /\ \E i \in 1..Len(pre) :
                        /\ pre[i].id = th[t].id
                        /\ post[i].id = pre[i].id
                        /\ post[i].created_at = pre[i].created_at
                        /\ post[i].name = Strip(data.f.name.v)
                        /\ post[i].stock = data.f.stock
                        /\ post[i].updated_at # <<>>
                        /\ \A j \in 1..Len(pre) : j # i => post[j] = pre[j]]_vars

\* C9's case: an update of one of several records has succeeded and changed
\* the record's name.
C9_Witness ==
    /\ AllIdle /\ resp.op = "update" /\ resp.status = 200
    /\ Len(resp.pre) >= 2
    /\ \E i \in 1..Len(resp.pre) :
          resp.pre[i].id = resp.id /\ resp.pre[i].name # resp.body.name

\* The handler of thread t returns from a get.
GetReturns(t) == th[t].pc \in {"get_dump", "get_404"} /\ th'[t].pc = "idle"

\* C10: a get of the id an add has just returned, with no request in between,
\* succeeds with the same id, name, stock and created_at as the add returned,
\* and with no updated_at.
C10_GetAfterAdd ==
    [][\A t \in Threads :
          (GetReturns(t) /\ resp.op = "add" /\ resp.status = 201
                         /\ th[t].id = resp.body.id)
              => /\ resp'.status = 200
                 /\ resp'.body.id = resp.body.id
                 /\ resp'.body.name = resp.body.name
                 /\ resp'.body.stock = resp.body.stock
                 /\ resp'.body.created_at = resp.body.created_at
                 /\ resp'.body.updated_at = <<>>]_vars

\* C10's case: the first request was a successful add and the second a get of
\* the id it returned.
C10_Witness ==
    /\ AllIdle /\ nreq = 2 /\ Len(addIds) = 1
    /\ resp.op = "get" /\ resp.id = addIds[1] /\ resp.status = 200

\* C11: a get of the id a delete has just removed, with no request in
\* between, yields NotFound.
C11_GetAfterDelete ==
    [][\A t \in Threads :
          (GetReturns(t) /\ resp.op = "delete" /\ resp.status = 200
                         /\ th[t].id = resp.id)
              => resp'.status = 404]_vars

\* C11's case: the first request was a successful delete and the second a get
\* of the deleted id.
C11_Witness ==
    /\ AllIdle /\ nreq = 2 /\ Len(delIds) = 1
    /\ resp.op = "get" /\ resp.id = delIds[1] /\ resp.status = 404

\* The five rules of spec 4.1, each with the reason given when it fails.
\* An integer is a JSON integer; a name counts when it is a string with a
\* character that is not whitespace.
RuleHolds(k, data) ==
    CASE k = 1 -> data.t = "dict" /\ DOMAIN data.f # {}
      [] k = 2 -> data.t = "dict" /\ "name" \in DOMAIN data.f
      [] k = 3 -> data.t = "dict" /\ "stock" \in DOMAIN data.f
      [] k = 4 -> /\ data.t = "dict" /\ "stock" \in DOMAIN data.f
                  /\ data.f.stock.t = "int" /\ data.f.stock.v >= 0
      [] k = 5 -> /\ data.t = "dict" /\ "name" \in DOMAIN data.f
                  /\ data.f.name.t = "str"
                  /\ \E i \in 1..Len(data.f.name.v) : ~IsSpace(data.f.name.v[i])

RuleReason(k) ==
    CASE k = 1 -> "No data provided"
      [] k = 2 -> "Missing required field: name"
      [] k = 3 -> "Missing required field: stock"
      [] k = 4 -> "Stock must be a non-negative integer"
      [] k = 5 -> "Name must be a non-empty string"

FailedRules(data) == {k \in 1..5 : ~RuleHolds(k, data)}

FirstFailedRule(data) ==
    CHOOSE k \in FailedRules(data) : \A j \in FailedRules(data) : k <= j

\* C12: validate returns ok exactly when all five rules pass, and otherwise
\* the reason of the first rule, in the order 1 to 5, that fails.
C12_FirstFailedRuleWins ==
    th[1].pc = "validated" =>
        IF FailedRules(th[1].data) = {}
        THEN resp.valid
        ELSE ~resp.valid /\ resp.body = RuleReason(FirstFailedRule(th[1].data))

\* C13: whatever the payloads were, the stock of every stored record is an
\* integer (a JSON integer, not a boolean or another type) and is >= 0.
C13_StoredStockIsNonNegativeInteger ==
    \A i \in 1..Len(inventory) :
        /\ heap[inventory[i]].stock.t = "int"
        /\ heap[inventory[i]].stock.v >= 0

\* C14: the name of every stored record is non-empty and neither begins nor
\* ends with whitespace.
C14_StoredNameIsTrimmed ==
    \A i \in 1..Len(inventory) :
        LET name == heap[inventory[i]].name IN
        /\ name # <<>>
        /\ ~IsSpace(name[1])
        /\ ~IsSpace(name[Len(name)])

\* C14's case: an add or an update given the padded name " A\t" has succeeded
\* and its record is in the store.
C14_Witness ==
    /\ AllIdle
    /\ resp.op \in {"add", "update"} /\ resp.status \in {200, 201}
    /\ \E i \in 1..Len(inventory) :
          /\ heap[inventory[i]].name = <<"A">>
          /\ heap[inventory[i]] = resp.body

\* C15: every delete ends with the removed record (200) or with NotFound
\* (404), never with InternalError, also when two deletes of one id overlap.
C15_DeleteNeverInternalError ==
    resp.op = "delete" => resp.status \in {200, 404}

\* C17: in every response of GET /items, count is the number of items.
C17_CountMatchesItems ==
    resp.op = "list" => resp.body.count = Len(resp.body.items)

DeleteReturns(t) == th[t].pc = "del_ret" /\ th'[t].pc = "idle"

\* C16: executions are serializable; in particular when an update and a
\* delete of the same record both succeed, one response directly after the
\* other, the record the delete returns carries the values the update returns.
C16_UpdateAndDeleteSerialize ==
    [][\A t \in Threads :
          (/\ \/ UpdateReturns(t) /\ resp.op = "delete"
              \/ DeleteReturns(t) /\ resp.op = "update"
           /\ resp.status = 200
           /\ resp.item = th[t].item)
              => resp'.body = resp.body]_vars

\* C18: under fair scheduling every request that has started completes.
C18_EveryRequestCompletes ==
    \A t \in Threads : (th[t].pc # "idle") ~> (th[t].pc = "idle")

\* C18's case: two requests have been served, the second of them after a
\* lookup that went through the whole list.
C18_Witness ==
    /\ AllIdle /\ nreq = 2
    /\ resp.status = 404

AddReturns(t) == th[t].pc = "add_ret" /\ th'[t].pc = "idle"

\* The ids of the records of a store.
IdsOf(store) == {store[i].id : i \in 1..Len(store)}

\* C19: with requests one at a time, an add gives the new record the id
\* 1 + the largest id in the store, or 1 when the store is empty, and puts it
\* at the end; the first add on the seeded store returns id 3.
C19_AddAllocatesMaxPlusOne ==
    [][\A t \in Threads :
          AddReturns(t) =>
              LET pre == th[t].pre
                  ids == IdsOf(pre)
              IN  /\ resp'.body.id =
                        IF ids = {} THEN 1
                        ELSE 1 + CHOOSE m \in ids : \A j \in ids : j <= m
                  /\ StoreView' = Append(pre, resp'.body)
                  /\ (pre = Seed => resp'.body.id = 3)]_vars

\* C19's case: an add on the store emptied by two deletes has returned id 1.
C19_Witness ==
    /\ AllIdle /\ resp.op = "add" /\ resp.status = 201
    /\ resp.pre = <<>> /\ resp.body.id = 1

\* C20: with requests one at a time, a stored record has updated_at exactly
\* when a successful update of it has returned; a failed update does not set it.
C20_UpdatedAtIffUpdated ==
    AllIdle =>
        \A i \in 1..Len(inventory) :
            heap[inventory[i]].updated_at # <<>> <=> inventory[i] \in updated

\* C20's case: an update answered 400 on a record a successful update had
\* stamped before, next to a record never updated.
C20_Witness ==
    /\ AllIdle /\ resp.op = "update" /\ resp.status = 400 /\ resp.item # 0
    /\ \E i, j \in 1..Len(inventory) :
          /\ heap[inventory[i]].updated_at # <<>>
          /\ heap[inventory[j]].updated_at = <<>>

\* The handler of thread t returns from get_items.
ListReturns(t) == th[t].pc = "list_dump" /\ th'[t].pc = "idle"

\* The store `store` without its records of id `id`.
WithoutId(store, id) ==
    LET Keep(r) == r.id # id IN SelectSeq(store, Keep)

\* C21: with requests one at a time, list returns the records in list order;
\* no step changes the relative order of two records that stay in the store;
\* an update keeps its record at its position, a delete removes exactly the
\* record with the requested id, and an add places the new record last.
C21_InsertionOrderIsStable ==
    [][/\ \A i, j \in 1..Len(inventory) : \A k, l \in 1..Len(inventory') :
              (i < j /\ inventory[i] = inventory'[k] /\ inventory[j] = inventory'[l])
                  => k < l
       /\ \A t \in Threads :
              /\ ListReturns(t) => resp'.body.items = th[t].pre
              /\ UpdateReturns(t) =>
                     /\ StoredIds' = [i \in 1..Len(th[t].pre) |-> th[t].pre[i].id]
                     /\ \E i \in 1..Len(th[t].pre) :
                            th[t].pre[i].id = th[t].id /\ StoreView'[i] = resp'.body
              /\ DeleteReturns(t) => StoreView' = WithoutId(th[t].pre, th[t].id)
              /\ AddReturns(t) =>
                     /\ Len(inventory') = Len(th[t].pre) + 1
                     /\ SubSeq(StoreView', 1, Len(th[t].pre)) = th[t].pre
                     /\ StoreView'[Len(inventory')] = resp'.body]_vars

\* C21's case: after a delete of the first record, an add and an update of
\* the record that was second, the store holds that record and then the new one.
C21_Witness ==
    /\ AllIdle /\ delIds = <<1>> /\ addIds = <<3>>
    /\ resp.op = "update" /\ resp.status = 200
    /\ StoredIds = <<2, 3>>

\* C22: with requests one at a time, a successful add directly followed by a
\* successful delete of the id the add returned leaves the store holding
\* exactly the records, in order, that it held before the add.
C22_AddThenDeleteRestoresStore ==
    [][\A t \in Threads :
          (DeleteReturns(t) /\ resp.op = "add" /\ resp.status = 201
                            /\ th[t].id = resp.body.id)
              => (StoreView' = resp.pre /\ Len(inventory') = Len(resp.pre))]_vars

\* C22's case: the first request was an add and the second the delete of the
\* id it returned.
C22_Witness ==
    /\ AllIdle /\ nreq = 2 /\ Len(addIds) = 1 /\ delIds = addIds
    /\ resp.op = "delete" /\ resp.status = 200

\* C23: whenever no add, update or delete is in progress, the INVENTORY_SIZE
\* gauge is the number of records in the store, also when adds and deletes
\* overlapped.
C23_GaugeIsStoreSize ==
    ~MutatorInProgress => gauge = Len(inventory)

====
